---- MODULE Spec2Model ----
(***************************************************************************)
(* Continuum FIFO wrapper (continuum-wrapper) and its relayer              *)
(* (continuum-relayer).                                                    *)
(*                                                                         *)
(* The ledger holds the wrapper program's accounts: the global FifoState,  *)
(* one PoolAuthorityState per registered pool, the users' token accounts   *)
(* (delegate and delegated amount), the emitted events and the venue's     *)
(* completed exchanges.  A transaction is a list of instructions the       *)
(* ledger applies one after the other to a working copy of its state; the  *)
(* copy replaces the ledger's state when every instruction returned Ok and *)
(* is dropped otherwise.  Transactions that write the same account are     *)
(* applied one at a time, in any order.                                    *)
(***************************************************************************)
EXTENDS Integers, Sequences, FiniteSets, TLC

\* ------------------------------------------------------------------ bounds
\* Largest sequence number a transaction carries (seq is a u64 in the code).
MaxSeq == 2
\* Largest value of the ledger clock (unix_timestamp).
MaxClock == 1
\* Largest number of entries in the pending queue (a VecDeque in the code).
MaxQueue == 2

\* ----------------------------------------------------------------- domains
RelayerKey == "relayer"
Clients == {"u1", "u2"}
Users == Clients \cup {RelayerKey}
PoolIds == {"p1", "p2"}
Amounts == {2}
Versions == {"lib", "lib_v1"}

\* The token account that supplies a user's input tokens.
SourceOf(u) == <<"token_account", u>>
Sources == {SourceOf(u) : u \in Users}
OwnerOf(source) == source[2]

\* ------------------------------------------------------- derived addresses
derive_delegate(source) == <<"delegate", source>>
derive_pool_authority(pool_id) == <<"pool_authority", pool_id>>
derive_pool_authority_state(pool_id) == <<"pool_authority_state", pool_id>>
derive_fifo_state == <<"fifo_state">>

NoDelegate == <<"none">>
NoAllowance == [delegate |-> NoDelegate, delegated_amount |-> 0]
NoPoolAuthorityState == [exists |-> FALSE]
NoFifoState == [exists |-> FALSE, seq |-> 0]

VARIABLES
    deployed,          \* which version of the wrapper program is deployed
    ledger,            \* the committed state of the ledger
    receipt,           \* the last transaction the ledger applied, and its outcome
    mempool,           \* per client: the swap transaction sent, then its outcome
    current_sequence,  \* SequenceTracker.current_sequence
    pending_swaps,     \* SequenceTracker.pending_swaps
    db,                \* the relayer's database: key current_sequence
    executor,          \* per request handler: where execute_swap stands
    ready,             \* what the last get_ready_swaps call returned
    monitor,           \* sequence_monitor_task: where process_pending_swaps stands
    restarted,         \* whether the relayer process has been started again
    health             \* health_handler calls: where each stands, what it read

vars == <<deployed, ledger, receipt, mempool, current_sequence, pending_swaps,
          db, executor, ready, monitor, restarted, health>>
tracker_vars == <<current_sequence, pending_swaps, db, ready, monitor>>
relayer_vars == <<current_sequence, pending_swaps, db, executor, ready,
                  monitor>>

\* ----------------------------------------------------- instruction results
Ok(st, trace) == [ok |-> TRUE, err |-> "none", st |-> st, trace |-> trace]
Err(e, st, trace) == [ok |-> FALSE, err |-> e, st |-> st, trace |-> trace]

\* ------------------------------------------------------------ SPL token
\* approve_checked: the owner of `source` lets `delegate` spend `amount`.
approve_checked(L, source, delegate, owner, amount, signers, trace) ==
    IF owner # OwnerOf(source) \/ owner \notin signers
    THEN Err("MissingRequiredSignature", L, trace)
    ELSE Ok([L EXCEPT !.token[source] =
                 [delegate |-> delegate, delegated_amount |-> amount]],
            Append(trace, "grant"))

\* The revoke left out.
token_revoke_skipped(L, source, revoke_ok, trace) == Ok(L, trace)

\* token::revoke signed by the delegate PDA.  The token program is external:
\* `revoke_ok` is its verdict.
token_revoke(L, source, revoke_ok, trace) ==
    IF ~revoke_ok
    THEN Err("RevokeFailed", L, trace)
    ELSE Ok([L EXCEPT !.token[source] = NoAllowance], Append(trace, "revoke"))

\* The venue (Raydium) is external: `venue_ok` is its verdict and `spent` the
\* amount it moves out of `source` on the delegate's authority.
invoke_signed(L, source, signer_seeds, venue_ok, spent, trace) ==
    LET acct == L.token[source] IN
    IF ~venue_ok
         \/ derive_delegate(source) \notin signer_seeds
         \/ acct.delegate # derive_delegate(source)
         \/ spent > acct.delegated_amount
    THEN Err("VenueFailed", L, Append(trace, "venue_rejected"))
    ELSE LET left == acct.delegated_amount - spent IN
         Ok([L EXCEPT !.token[source] =
                 IF left = 0 THEN NoAllowance
                 ELSE [delegate |-> acct.delegate, delegated_amount |-> left],
                      !.venue_swaps = @ + 1],
            Append(trace, "venue"))

\* ------------------------------------------------------ wrapper: accounts
\* init_if_needed in place of init: an existing account is accepted.
InitializeIfNeeded(L) == "none"

\* #[account(init, seeds = [b"fifo_state"])]: creating the account fails when
\* it already exists.
Initialize(L) ==
    IF L.fifo_state.exists THEN "AccountAlreadyInUse" ELSE "none"

InitializePoolAuthorityIfNeeded(L, pool_id) == "none"

\* #[account(init, seeds = [b"pool_authority_state", pool_id])]
InitializePoolAuthority(L, pool_id) ==
    IF L.pool_authority_state[pool_id].exists
    THEN "AccountAlreadyInUse" ELSE "none"

\* The accounts of swap_with_pool_authority, validated in declaration order.
SwapWithPoolAuthority(L, tx) ==
    IF ~L.fifo_state.exists THEN "AccountNotInitialized"
    ELSE IF ~L.pool_authority_state[tx.pool_id].exists
    THEN "AccountNotInitialized"
    ELSE IF tx.user \notin tx.signers THEN "AccountNotSigner"
    ELSE "none"

\* The accounts of swap_with_seq (lib_v1).
SwapWithSeq(L, tx) ==
    IF ~L.fifo_state.exists THEN "AccountNotInitialized"
    ELSE IF tx.user \notin tx.signers THEN "AccountNotSigner"
    ELSE "none"

\* ---------------------------------------------------- wrapper: handlers
initialize(L, trace) ==
    LET e == Initialize(L) IN
    IF e # "none" THEN Err(e, L, trace)
    ELSE Ok([L EXCEPT !.fifo_state = [exists |-> TRUE, seq |-> 0]], trace)

\* A registration that also sets the sequence back to 0.
initialize_pool_authority_resetting(L, pool_id, trace) ==
    LET e == InitializePoolAuthority(L, pool_id) IN
    IF e # "none" THEN Err(e, L, trace)
    ELSE Ok([L EXCEPT !.pool_authority_state[pool_id] =
                 [exists |-> TRUE, pool_id |-> pool_id, fifo_enforced |-> TRUE,
                  created_at |-> L.unix_timestamp],
                      !.fifo_state.seq = 0], trace)

initialize_pool_authority(L, pool_id, trace) ==
    LET e == InitializePoolAuthority(L, pool_id) IN
    IF e # "none" THEN Err(e, L, trace)
    ELSE Ok([L EXCEPT !.pool_authority_state[pool_id] =
                 [exists |-> TRUE, pool_id |-> pool_id, fifo_enforced |-> TRUE,
                  created_at |-> L.unix_timestamp]], trace)

create_pool_with_authority(L, trace) == Ok(L, trace)

\* The seeds handed to invoke_signed: the PDAs that sign the call into the
\* venue.
signer_seeds_delegate_only(source, pool_id) == {derive_delegate(source)}

signer_seeds(source, pool_id) ==
    {derive_delegate(source), derive_pool_authority(pool_id)}

signer_seeds_v1(source) == {derive_delegate(source)}

\* The check against state.seq in place of state.seq + 1.
BadSeqOffByOne(state, seq) == ~(state.seq = seq)

\* The check that lets a later number through.
BadSeqAtLeast(state, seq) == ~(state.seq + 1 <= seq)

\* The check left out.
BadSeqUnchecked(state, seq) == FALSE

\* 1 FIFO check
BadSeq(state, seq) == ~(state.seq + 1 = seq)

\* The sequence advanced without an event.
advance_silent(L, tx, pool_id, trace) ==
    Ok([L EXCEPT !.fifo_state.seq = tx.seq], Append(trace, "advance"))

\* The advance that also stamps the pool authority record with the time of
\* the swap.
advance_stamping(L, tx, pool_id, trace) ==
    Ok([L EXCEPT !.fifo_state.seq = tx.seq,
                 !.events = Append(@, [seq |-> tx.seq, user |-> tx.user,
                                       pool_id |-> pool_id]),
                 !.pool_authority_state[pool_id].created_at = L.unix_timestamp],
       trace \o <<"advance", "emit">>)

\* 5 Advance sequence, emit SwapEvent
advance(L, tx, pool_id, trace) ==
    Ok([L EXCEPT !.fifo_state.seq = tx.seq,
                 !.events = Append(@, [seq |-> tx.seq, user |-> tx.user,
                                       pool_id |-> pool_id])],
       trace \o <<"advance", "emit">>)

\* The venue's error dropped (no `?` after invoke_signed).
swap_ignoring_venue_error(L, tx, venue_ok, spent, revoke_ok, trace) ==
    LET e == SwapWithPoolAuthority(L, tx) IN
    IF e # "none" THEN Err(e, L, trace)
    ELSE IF BadSeq(L.fifo_state, tx.seq) THEN Err("BadSeq", L, trace)
    ELSE
    LET pool_id == L.pool_authority_state[tx.pool_id].pool_id
        seeds == signer_seeds(tx.source, pool_id)
        cpi == invoke_signed(L, tx.source, seeds, venue_ok, spent, trace)
        rv == token_revoke(cpi.st, tx.source, revoke_ok, cpi.trace)
    IN  IF ~rv.ok THEN rv ELSE advance(rv.st, tx, pool_id, rv.trace)

\* The revoke's error dropped (no `?` after token::revoke).
swap_ignoring_revoke_error(L, tx, venue_ok, spent, revoke_ok, trace) ==
    LET e == SwapWithPoolAuthority(L, tx) IN
    IF e # "none" THEN Err(e, L, trace)
    ELSE IF BadSeq(L.fifo_state, tx.seq) THEN Err("BadSeq", L, trace)
    ELSE
    LET pool_id == L.pool_authority_state[tx.pool_id].pool_id
        seeds == signer_seeds(tx.source, pool_id)
        cpi == invoke_signed(L, tx.source, seeds, venue_ok, spent, trace)
    IN  IF ~cpi.ok THEN cpi
        ELSE LET rv == token_revoke(cpi.st, tx.source, revoke_ok, cpi.trace) IN
             advance(rv.st, tx, pool_id, rv.trace)

\* The sequence advanced and the event emitted ahead of the call into the
\* venue.
swap_advancing_first(L, tx, venue_ok, spent, revoke_ok, trace) ==
    LET e == SwapWithPoolAuthority(L, tx) IN
    IF e # "none" THEN Err(e, L, trace)
    ELSE IF BadSeq(L.fifo_state, tx.seq) THEN Err("BadSeq", L, trace)
    ELSE
    LET pool_id == L.pool_authority_state[tx.pool_id].pool_id
        seeds == signer_seeds(tx.source, pool_id)
        adv == advance(L, tx, pool_id, trace)
        cpi == invoke_signed(adv.st, tx.source, seeds, venue_ok, spent, adv.trace)
    IN  IF ~cpi.ok THEN cpi
        ELSE token_revoke(cpi.st, tx.source, revoke_ok, cpi.trace)

\* The sequence number checked after the call into the venue and the revoke.
swap_checking_seq_late(L, tx, venue_ok, spent, revoke_ok, trace) ==
    LET e == SwapWithPoolAuthority(L, tx) IN
    IF e # "none" THEN Err(e, L, trace)
    ELSE
    LET pool_id == L.pool_authority_state[tx.pool_id].pool_id
        seeds == signer_seeds(tx.source, pool_id)
        cpi == invoke_signed(L, tx.source, seeds, venue_ok, spent, trace)
    IN  IF ~cpi.ok THEN cpi
        ELSE LET rv == token_revoke(cpi.st, tx.source, revoke_ok, cpi.trace) IN
             IF ~rv.ok THEN rv
             ELSE IF BadSeq(L.fifo_state, tx.seq) THEN Err("BadSeq", L, rv.trace)
             ELSE advance(rv.st, tx, pool_id, rv.trace)

swap_with_pool_authority(L, tx, venue_ok, spent, revoke_ok, trace) ==
    LET e == SwapWithPoolAuthority(L, tx) IN
    IF e # "none" THEN Err(e, L, trace)
    ELSE IF BadSeq(L.fifo_state, tx.seq) THEN Err("BadSeq", L, trace)
    ELSE
    LET pool_id == L.pool_authority_state[tx.pool_id].pool_id
        seeds == signer_seeds(tx.source, pool_id)
        cpi == invoke_signed(L, tx.source, seeds, venue_ok, spent, trace)
    IN  IF ~cpi.ok THEN cpi
        ELSE LET rv == token_revoke(cpi.st, tx.source, revoke_ok, cpi.trace) IN
             IF ~rv.ok THEN rv ELSE advance(rv.st, tx, pool_id, rv.trace)

\* 5 Advance sequence and emit SeqEvent (lib_v1)
advance_v1(L, tx, trace) ==
    Ok([L EXCEPT !.fifo_state.seq = tx.seq,
                 !.events = Append(@, [seq |-> tx.seq, user |-> tx.user])],
       trace \o <<"advance", "emit">>)

swap_with_seq(L, tx, venue_ok, spent, revoke_ok, trace) ==
    LET e == SwapWithSeq(L, tx) IN
    IF e # "none" THEN Err(e, L, trace)
    ELSE IF BadSeq(L.fifo_state, tx.seq) THEN Err("BadSeq", L, trace)
    ELSE
    LET seeds == signer_seeds_v1(tx.source)
        cpi == invoke_signed(L, tx.source, seeds, venue_ok, spent, trace)
    IN  IF ~cpi.ok THEN cpi
        ELSE LET rv == token_revoke(cpi.st, tx.source, revoke_ok, cpi.trace) IN
             IF ~rv.ok THEN rv ELSE advance_v1(rv.st, tx, rv.trace)

\* ------------------------------------------------------------- transactions
\* The instruction a version of the program does not have.
HasInstruction(version, ix) ==
    IF version = "lib"
    THEN ix \in {"initialize", "initialize_pool_authority",
                 "swap_with_pool_authority", "create_pool_with_authority"}
    ELSE ix \in {"initialize", "swap_with_seq"}

\* All instructions of a transaction take effect or none does: a failed
\* transaction leaves the ledger as it found it.
Atomic(L, r) == IF r.ok THEN r ELSE [r EXCEPT !.st = L]

SwapInstruction(L, tx, venue_ok, spent, revoke_ok, trace) ==
    IF tx.ix = "swap_with_pool_authority"
    THEN swap_with_pool_authority(L, tx, venue_ok, spent, revoke_ok, trace)
    ELSE swap_with_seq(L, tx, venue_ok, spent, revoke_ok, trace)

\* The approve sent as a transaction of its own, ahead of the swap.
SwapTransactionSplit(L, tx, venue_ok, spent, revoke_ok) ==
    LET grant == Atomic(L, approve_checked(L, tx.source,
                     derive_delegate(tx.source), tx.user, tx.amount_in,
                     tx.signers, <<>>))
    IN  IF ~grant.ok THEN grant
        ELSE Atomic(grant.st, SwapInstruction(grant.st, tx, venue_ok, spent,
                                              revoke_ok, grant.trace))

\* An approve that hands the delegate one token more than the swap takes in.
ApproveInstructionGenerous(L, tx) ==
    approve_checked(L, tx.source, derive_delegate(tx.source), tx.user,
                    tx.amount_in + 1, tx.signers, <<>>)

\* The approve instruction of the swap transaction: over the source account,
\* to the delegate derived from it, owner user_pubkey, amount_in.
ApproveInstruction(L, tx) ==
    approve_checked(L, tx.source, derive_delegate(tx.source), tx.user,
                    tx.amount_in, tx.signers, <<>>)

\* The swap transaction: approve_checked, then the wrapper's swap instruction,
\* signed and sent as one transaction.
SwapTransaction(L, tx, venue_ok, spent, revoke_ok) ==
    LET grant == ApproveInstruction(L, tx)
    IN  Atomic(L, IF ~grant.ok THEN grant
                  ELSE SwapInstruction(grant.st, tx, venue_ok, spent, revoke_ok,
                                       grant.trace))

RunTransaction(version, L, tx, venue_ok, spent, revoke_ok) ==
    IF ~HasInstruction(version, tx.ix)
    THEN Err("InstructionFallbackNotFound", L, <<>>)
    ELSE CASE tx.ix = "initialize" -> Atomic(L, initialize(L, <<>>))
           [] tx.ix = "initialize_pool_authority" ->
                  Atomic(L, initialize_pool_authority(L, tx.pool_id, <<>>))
           [] tx.ix = "create_pool_with_authority" ->
                  Atomic(L, create_pool_with_authority(L, <<>>))
           [] OTHER -> SwapTransaction(L, tx, venue_ok, spent, revoke_ok)

\* -------------------------------------------------------------------- Init
NoReceipt == [ix |-> "none"]
NoValue == [present |-> FALSE, value |-> <<>>]
Idle == [state |-> "idle"]
Handlers == {"h1", "h2"}
NotCalled == [called |-> FALSE, swaps |-> <<>>]
Sleeping == [pc |-> "sleeping", observed |-> 0, running |-> 0]
Readers == {"r1", "r2"}
NotReading == [pc |-> "idle", current_sequence |-> 0]

Init ==
    /\ deployed \in Versions
    /\ ledger = [fifo_state |-> NoFifoState,
                 pool_authority_state |-> [p \in PoolIds |-> NoPoolAuthorityState],
                 token |-> [s \in Sources |-> NoAllowance],
                 events |-> <<>>,
                 venue_swaps |-> 0,
                 unix_timestamp |-> 0]
    /\ receipt = NoReceipt
    /\ mempool = [c \in Clients |-> Idle]
    /\ current_sequence = 0
    /\ pending_swaps = <<>>
    /\ db = NoValue
    /\ executor = [h \in Handlers |-> Idle]
    /\ ready = NotCalled
    /\ monitor = Sleeping
    /\ restarted = FALSE
    /\ health = [r \in Readers |-> NotReading]

\* ------------------------------------------------------------ transactions
SwapIx == IF deployed = "lib" THEN "swap_with_pool_authority" ELSE "swap_with_seq"

SwapTx(c, seq, pool_id, amount) ==
    [ix |-> SwapIx, seq |-> seq, pool_id |-> pool_id, user |-> c,
     source |-> SourceOf(c), amount_in |-> amount, signers |-> {c}]

Payer == "u1"

AdminTx(ix, pool_id) ==
    [ix |-> ix, seq |-> 0, pool_id |-> pool_id, user |-> Payer,
     source |-> SourceOf(Payer), amount_in |-> 0, signers |-> {Payer}]

SwapTxs ==
    {SwapTx(c, seq, p, a) : c \in Clients, seq \in 0..MaxSeq, p \in PoolIds,
                            a \in Amounts}

Receipt(tx, r, L) ==
    [ix |-> tx.ix, tx |-> tx, ok |-> r.ok, err |-> r.err, trace |-> r.trace,
     seq_before |-> L.fifo_state.seq]

\* What the venue may answer to a call that lets it spend up to `amount`: it
\* rejects the call, or it completes the exchange and spends part or all of
\* the allowance.
VenueVerdicts(amount) ==
    {[ok |-> FALSE, spent |-> 0]}
        \cup {[ok |-> TRUE, spent |-> a] : a \in {amount - 1, amount} \cap Nat}

\* Whether `tx` gets as far as the call into the venue.
ReachesVenue(L, tx) ==
    LET r == RunTransaction(deployed, L, tx, FALSE, 0, FALSE)
    IN  \E i \in 1..Len(r.trace) : r.trace[i] = "venue_rejected"

\* The verdicts that can tell two runs of `tx` apart: the venue's if the
\* transaction reaches it, the token program's on the revocation if the venue
\* has accepted.
Verdicts(L, tx) ==
    IF ~ReachesVenue(L, tx)
    THEN {[ok |-> FALSE, spent |-> 0, revoke_ok |-> FALSE]}
    ELSE {[ok |-> v.ok, spent |-> v.spent, revoke_ok |-> b] :
             v \in VenueVerdicts(tx.amount_in), b \in BOOLEAN} \
         {[ok |-> FALSE, spent |-> 0, revoke_ok |-> TRUE]}

\* The ledger applies `tx`; the venue's and the token program's verdicts are
\* not the wrapper's to choose.
Apply(tx) ==
    \E v \in Verdicts(ledger, tx) :
        LET r == RunTransaction(deployed, ledger, tx, v.ok, v.spent, v.revoke_ok)
        IN  /\ ledger' = r.st
            /\ receipt' = Receipt(tx, r, ledger)

\* ----------------------------------------------------------------- clients
\* Client c signs and sends a swap transaction carrying any sequence number.
SwapBy(c) ==
    /\ \E tx \in SwapTxs : tx.user = c /\ Apply(tx)
    /\ UNCHANGED <<deployed, restarted, health, mempool, relayer_vars>>

Swap == \E c \in Clients : SwapBy(c)

InitializeTx ==
    /\ Apply(AdminTx("initialize", "p1"))
    /\ UNCHANGED <<deployed, restarted, health, mempool, relayer_vars>>

InitializePoolAuthorityTx ==
    /\ \E p \in PoolIds : Apply(AdminTx("initialize_pool_authority", p))
    /\ UNCHANGED <<deployed, restarted, health, mempool, relayer_vars>>

CreatePoolWithAuthorityTx ==
    /\ \E p \in PoolIds : Apply(AdminTx("create_pool_with_authority", p))
    /\ UNCHANGED <<deployed, restarted, health, mempool, relayer_vars>>

Tick ==
    /\ ledger.unix_timestamp < MaxClock
    /\ ledger' = [ledger EXCEPT !.unix_timestamp = @ + 1]
    /\ UNCHANGED <<deployed, restarted, health, receipt, mempool, relayer_vars>>

\* ----------------------------------------------------------------- bytes
\* u64::to_le_bytes and u64::from_le_bytes.
RECURSIVE le_bytes(_, _)
le_bytes(n, k) ==
    IF k = 0 THEN <<>> ELSE <<n % 256>> \o le_bytes(n \div 256, k - 1)

to_le_bytes(n) == le_bytes(n, 8)

RECURSIVE from_le_bytes(_)
from_le_bytes(bytes) ==
    IF bytes = <<>> THEN 0 ELSE Head(bytes) + 256 * from_le_bytes(Tail(bytes))

\* The first 8 bytes of the instruction data name the instruction.
swap_with_pool_authority_discriminator ==
    <<237, 180, 80, 103, 107, 172, 187, 137>>

InstructionOf(discriminator) ==
    IF discriminator = swap_with_pool_authority_discriminator
    THEN "swap_with_pool_authority"
    ELSE "unknown"

\* build_swap_instruction: discriminator, then the sequence number.
build_swap_instruction_data(sequence) ==
    swap_with_pool_authority_discriminator \o to_le_bytes(sequence)

\* ------------------------------------------------------------ the relayer
\* A tracker that starts from 0 whatever the database holds.
SequenceTracker_new_zero(database) ==
    [current_sequence |-> 0, pending_swaps |-> <<>>]

\* SequenceTracker::new: the last known sequence from the database, or 0.
SequenceTracker_new(database) ==
    [current_sequence |-> IF database.present
                          THEN from_le_bytes(database.value) ELSE 0,
     pending_swaps |-> <<>>]

get_current_sequence(cur) == cur

\* The number last seen, handed out as the next one.
get_next_sequence_stale(cur) == cur

get_next_sequence(cur) == cur + 1
get_pending_count(queue) == Len(queue)

\* An update that stores the number after the one observed.
update_on_chain_sequence_ahead(cur, database, seq, db_ok) ==
    [current_sequence |-> seq + 1,
     db |-> IF db_ok THEN [present |-> TRUE, value |-> to_le_bytes(seq + 1)]
            ELSE database,
     ok |-> db_ok]

\* An update that leaves the field as it was.
update_on_chain_sequence_unstored(cur, database, seq, db_ok) ==
    [current_sequence |-> cur, db |-> database, ok |-> db_ok]

\* update_on_chain_sequence: the field is set, then the value is persisted;
\* `db_ok` is the database's verdict on the insert.
update_on_chain_sequence(cur, database, seq, db_ok) ==
    [current_sequence |-> seq,
     db |-> IF db_ok THEN [present |-> TRUE, value |-> to_le_bytes(seq)]
            ELSE database,
     ok |-> db_ok]

\* load_pool_accounts: the one pool the relayer has the venue accounts of.
test_pool_id == "p1"
\* A lookup that answers for every pool id.
load_pool_accounts_any(pool_id) == TRUE

load_pool_accounts(pool_id) == pool_id = test_pool_id

Requests ==
    [user_pubkey : {RelayerKey, "u1"}, pool_id : PoolIds, amount_in : Amounts]

\* The transaction execute_swap builds: approve_checked and
\* swap_with_pool_authority, signed by the relayer's keypair alone.
\* As the ledger reads it: the instruction is found by the first 8 bytes of the
\* data, its seq argument is the next 8, little-endian.
RelayerTx(request, next_seq) ==
    LET data == build_swap_instruction_data(next_seq) IN
    [ix |-> InstructionOf(SubSeq(data, 1, 8)),
     seq |-> from_le_bytes(SubSeq(data, 9, 16)),
     pool_id |-> request.pool_id, user |-> request.user_pubkey,
     source |-> SourceOf(request.user_pubkey),
     amount_in |-> request.amount_in, signers |-> {RelayerKey}]

\* Transaction::sign fails when a required signer's key is not among the
\* keypairs given.
SignFails(tx) == ~({tx.user} \subseteq tx.signers)

\* A handler that also puts the request into the queue under its number.
ExecuteSwapStampQueueing(h, requests) ==
    /\ executor[h].state # "stamped"
    /\ current_sequence < MaxSeq
    /\ Len(pending_swaps) < MaxQueue
    /\ \E request \in requests :
           /\ executor' = [executor EXCEPT ![h] =
                  [state |-> "stamped", request |-> request,
                   next_seq |-> get_next_sequence(current_sequence),
                   sent |-> 0]]
           /\ pending_swaps' =
                  [i \in 1..(Len(pending_swaps) + 1) |->
                      IF i <= Len(pending_swaps) THEN pending_swaps[i]
                      ELSE [seq |-> get_next_sequence(current_sequence),
                            request |-> request]]
    /\ UNCHANGED <<deployed, restarted, health, ledger, receipt, mempool,
                   current_sequence, db, ready, monitor>>

\* execute_swap, up to the release of the tracker's lock: the request is
\* stamped with get_next_sequence().
ExecuteSwapStampOf(h, requests) ==
    /\ executor[h].state # "stamped"
    /\ current_sequence < MaxSeq
    /\ \E request \in requests :
           executor' = [executor EXCEPT ![h] =
               [state |-> "stamped", request |-> request,
                next_seq |-> get_next_sequence(current_sequence),
                sent |-> 0]]
    /\ UNCHANGED <<deployed, restarted, health, ledger, receipt, mempool, tracker_vars>>

ExecuteSwapStamp(h) == ExecuteSwapStampOf(h, Requests)

\* What send_and_confirm_transaction can come to for one signed transaction:
\* the ledger applies it and the client sees the result; the ledger applies it
\* and the client gives up waiting; the transaction never reaches a block and
\* the client gives up waiting.
SendOutcomes == {"confirmed", "unconfirmed", "dropped"}
TimedOut == "unable to confirm transaction"

\* A handler that sends the transaction again when the send has failed.
execute_swap_response_retrying(request, next_seq, sent, ok, err) ==
    IF ok
    THEN [state |-> "returned", ok |-> ok, err |-> err, sequence |-> next_seq,
          sent |-> sent]
    ELSE [state |-> "stamped", request |-> request, next_seq |-> next_seq,
          sent |-> sent]

\* The end of execute_swap: the error of the send is returned with `?`, else
\* the response carries next_seq.  `sent` counts the transactions the handler
\* has handed to the RPC client for this request.
execute_swap_response(request, next_seq, sent, ok, err) ==
    [state |-> "returned", ok |-> ok, err |-> err, sequence |-> next_seq,
     sent |-> sent]

\* execute_swap, from load_pool_accounts to the response.
ExecuteSwapSubmit(h) ==
    /\ executor[h].state = "stamped"
    /\ LET request == executor[h].request
           next_seq == executor[h].next_seq
           tx == RelayerTx(request, next_seq)
       IN  IF ~load_pool_accounts(request.pool_id)
           THEN /\ executor' = [executor EXCEPT ![h] =
                       [state |-> "returned", ok |-> FALSE,
                        err |-> "Pool not found", sequence |-> next_seq,
                        sent |-> 0]]
                /\ UNCHANGED <<ledger, receipt>>
           ELSE IF SignFails(tx)
           THEN /\ executor' = [executor EXCEPT ![h] =
                       [state |-> "returned", ok |-> FALSE,
                        err |-> "Transaction::sign failed",
                        sequence |-> next_seq, sent |-> 0]]
                /\ UNCHANGED <<ledger, receipt>>
           ELSE \E outcome \in SendOutcomes :
                /\ IF outcome = "dropped"
                   THEN UNCHANGED <<ledger, receipt>>
                   ELSE Apply(tx)
                /\ executor' = [executor EXCEPT ![h] =
                       IF outcome = "confirmed"
                       THEN execute_swap_response(request, next_seq, @.sent + 1,
                                                  receipt'.ok, receipt'.err)
                       ELSE execute_swap_response(request, next_seq, @.sent + 1,
                                                  FALSE, TimedOut)]
    /\ UNCHANGED <<deployed, restarted, health, mempool, tracker_vars>>

\* process_pending_swaps, run by sequence_monitor_task every second: read the
\* FifoState account and store its seq.  `rpc_ok` and `db_ok` are the RPC
\* node's and the database's verdicts.
ProcessPendingSwapsWith(rpc_ok, db_ok) ==
    /\ IF ~rpc_ok \/ ~ledger.fifo_state.exists
       THEN UNCHANGED tracker_vars
       ELSE LET u == update_on_chain_sequence(current_sequence, db,
                                              ledger.fifo_state.seq, db_ok)
            IN  /\ current_sequence' = u.current_sequence
                /\ db' = u.db
                /\ UNCHANGED <<pending_swaps, ready>>
    /\ UNCHANGED <<deployed, restarted, health, ledger, receipt, mempool, executor, monitor>>

ProcessPendingSwaps ==
    \E rpc_ok \in BOOLEAN, db_ok \in BOOLEAN :
        ProcessPendingSwapsWith(rpc_ok, db_ok)

RelayerNext ==
    \/ InitializeTx
    \/ InitializePoolAuthorityTx
    \/ SwapBy("u1")
    \/ ExecuteSwapStamp("h1")
    \/ ExecuteSwapSubmit("h1")
    \/ ProcessPendingSwaps

\* The relayer runs against the program of lib.rs, whose
\* swap_with_pool_authority it calls.
RelayerInit == Init /\ deployed = "lib"

RelayerSpec == RelayerInit /\ [][RelayerNext]_vars

\* ------------------------------------------------- the tracker on its own

\* add_pending_swap: push_back.
add_pending_swap(queue, seq, request) ==
    Append(queue, [seq |-> seq, request |-> request])

\* The loop that takes every front entry numbered up to current_sequence + 1.
RECURSIVE get_ready_swaps_up_to(_, _)
get_ready_swaps_up_to(cur, queue) ==
    IF queue # <<>> /\ Head(queue).seq <= cur + 1
    THEN LET rest == get_ready_swaps_up_to(cur, Tail(queue)) IN
         [ready |-> <<Head(queue)>> \o rest.ready,
          pending_swaps |-> rest.pending_swaps]
    ELSE [ready |-> <<>>, pending_swaps |-> queue]

\* The loop that goes on past an entry that is not the next one.
RECURSIVE get_ready_swaps_skipping(_, _)
get_ready_swaps_skipping(cur, queue) ==
    IF queue = <<>> THEN [ready |-> <<>>, pending_swaps |-> <<>>]
    ELSE LET rest == get_ready_swaps_skipping(cur, Tail(queue)) IN
         IF Head(queue).seq = cur + 1
         THEN [ready |-> <<Head(queue)>> \o rest.ready,
               pending_swaps |-> rest.pending_swaps]
         ELSE [ready |-> rest.ready,
               pending_swaps |-> <<Head(queue)>> \o rest.pending_swaps]

\* The loop that expects the next number after each entry it releases.
RECURSIVE get_ready_swaps_advancing(_, _)
get_ready_swaps_advancing(cur, queue) ==
    IF queue # <<>> /\ Head(queue).seq = cur + 1
    THEN LET rest == get_ready_swaps_advancing(cur + 1, Tail(queue)) IN
         [ready |-> <<Head(queue)>> \o rest.ready,
          pending_swaps |-> rest.pending_swaps]
    ELSE [ready |-> <<>>, pending_swaps |-> queue]

\* A single test of the front entry in place of the loop.
get_ready_swaps_single(cur, queue) ==
    IF queue # <<>> /\ Head(queue).seq = cur + 1
    THEN [ready |-> <<Head(queue)>>, pending_swaps |-> Tail(queue)]
    ELSE [ready |-> <<>>, pending_swaps |-> queue]

\* The loop that first throws away the front entries the sequence has passed.
RECURSIVE get_ready_swaps_dropping_stale(_, _)
get_ready_swaps_dropping_stale(cur, queue) ==
    IF queue # <<>> /\ Head(queue).seq <= cur
    THEN get_ready_swaps_dropping_stale(cur, Tail(queue))
    ELSE IF queue # <<>> /\ Head(queue).seq = cur + 1
    THEN LET rest == get_ready_swaps_dropping_stale(cur, Tail(queue)) IN
         [ready |-> <<Head(queue)>> \o rest.ready,
          pending_swaps |-> rest.pending_swaps]
    ELSE [ready |-> <<>>, pending_swaps |-> queue]

\* get_ready_swaps: while the front entry's seq is current_sequence + 1, pop it
\* and collect it; stop at the first entry that is not.
RECURSIVE get_ready_swaps(_, _)
get_ready_swaps(cur, queue) ==
    IF queue # <<>> /\ Head(queue).seq = cur + 1
    THEN LET rest == get_ready_swaps(cur, Tail(queue)) IN
         [ready |-> <<Head(queue)>> \o rest.ready,
          pending_swaps |-> rest.pending_swaps]
    ELSE [ready |-> <<>>, pending_swaps |-> queue]

\* The requests and sequence numbers a caller queues.
QueueRequests == {r \in Requests : r.pool_id = test_pool_id}
QueueSeqs == 1..(MaxSeq + 1)

AddPendingSwapOf(seqs, requests) ==
    /\ Len(pending_swaps) < MaxQueue
    /\ \E seq \in seqs, request \in requests :
           pending_swaps' = add_pending_swap(pending_swaps, seq, request)
    /\ UNCHANGED <<deployed, restarted, health, ledger, receipt, mempool, current_sequence, db,
                   executor, ready, monitor>>

AddPendingSwap == AddPendingSwapOf(QueueSeqs, QueueRequests)

GetReadySwaps ==
    /\ LET r == get_ready_swaps(current_sequence, pending_swaps)
       IN  /\ ready' = [called |-> TRUE, swaps |-> r.ready]
           /\ pending_swaps' = r.pending_swaps
    /\ UNCHANGED <<deployed, restarted, health, ledger, receipt, mempool, current_sequence, db,
                   executor, monitor>>

\* update_on_chain_sequence called with any value.
UpdateOnChainSequence ==
    /\ \E seq \in 0..MaxSeq, db_ok \in BOOLEAN :
           LET u == update_on_chain_sequence(current_sequence, db, seq, db_ok)
           IN  /\ current_sequence' = u.current_sequence
               /\ db' = u.db
    /\ UNCHANGED <<deployed, restarted, health, ledger, receipt, mempool, pending_swaps,
                   executor, ready, monitor>>

\* The process stops and starts again: SequenceTracker::new on the same
\* database.
Restart ==
    /\ LET t == SequenceTracker_new(db)
       IN  /\ current_sequence' = t.current_sequence
           /\ pending_swaps' = t.pending_swaps
    /\ ready' = NotCalled
    /\ executor' = [h \in Handlers |-> Idle]
    /\ monitor' = Sleeping
    /\ restarted' = TRUE
    /\ health' = [r \in Readers |-> NotReading]
    /\ UNCHANGED <<deployed, ledger, receipt, mempool, db>>

TrackerNext ==
    \/ AddPendingSwap
    \/ GetReadySwaps
    \/ UpdateOnChainSequence
    \/ Restart

\* The tracker does not look at the ledger; the program of lib.rs is taken
\* as deployed.
TrackerInit == Init /\ deployed = "lib"

TrackerSpec == TrackerInit /\ [][TrackerNext]_vars

\* ------------------------------------------ the relayer, stopped and started
RestartingNext ==
    \/ RelayerNext
    \/ Restart

RestartingSpec == RelayerInit /\ [][RestartingNext]_vars

\* ------------------------------------------- the monitor task, kept running
\* sequence_monitor_task ticks for ever; the calls of process_pending_swaps
\* whose account read and database insert both succeed are the refreshes that
\* succeed.
RefreshSucceeds == ProcessPendingSwapsWith(TRUE, TRUE)

RefreshNext ==
    \/ InitializeTx
    \/ InitializePoolAuthorityTx
    \/ SwapBy("u1")
    \/ ProcessPendingSwaps
    \/ Restart

\* The monitor task is scheduled again and again, and refreshes keep
\* succeeding.
RefreshSpec == RelayerInit /\ [][RefreshNext]_vars /\ WF_vars(RefreshSucceeds)

\* ------------------------------------------- the tracker behind its lock
\* sequence_monitor_task awaits each process_pending_swaps call before the
\* next tick: a call starts only when none is running.
MonitorMayStartAlways == TRUE

MonitorMayStart == monitor.pc = "sleeping"

\* The tracker's RwLock is write-locked by process_pending_swaps from its
\* first line to its return.
WriteLocked == monitor.pc \in {"reading", "updating"}

\* A health_handler call holds the tracker's read lock.
ReadLocked == \E r \in Readers : health[r].pc # "idle"

\* A write lock granted without regard to the readers.
NoReaderUnchecked == TRUE

\* write() is granted when no read lock is held.
NoReader == ~ReadLocked

\* A tick: process_pending_swaps takes the write lock.
MonitorStart ==
    /\ MonitorMayStart
    /\ NoReader
    /\ monitor.running < 2
    /\ monitor' = [pc |-> "reading", observed |-> 0,
                   running |-> monitor.running + 1]
    /\ UNCHANGED <<deployed, restarted, health, ledger, receipt, mempool, current_sequence,
                   pending_swaps, db, executor, ready>>

\* get_account on the FifoState address; an error returns from the call.
MonitorRead ==
    /\ monitor.pc = "reading"
    /\ \E rpc_ok \in BOOLEAN :
           monitor' = IF rpc_ok /\ ledger.fifo_state.exists
                      THEN [monitor EXCEPT !.pc = "updating",
                                           !.observed = ledger.fifo_state.seq]
                      ELSE [pc |-> "sleeping", observed |-> 0,
                            running |-> monitor.running - 1]
    /\ UNCHANGED <<deployed, restarted, health, ledger, receipt, mempool, current_sequence,
                   pending_swaps, db, executor, ready>>

\* tracker.update_on_chain_sequence(current_seq)?, then the lock is dropped.
MonitorUpdate ==
    /\ monitor.pc = "updating"
    /\ \E db_ok \in BOOLEAN :
           LET u == update_on_chain_sequence(current_sequence, db,
                                             monitor.observed, db_ok)
           IN  /\ current_sequence' = u.current_sequence
               /\ db' = u.db
    /\ monitor' = [pc |-> "sleeping", observed |-> 0,
                   running |-> monitor.running - 1]
    /\ UNCHANGED <<deployed, restarted, health, ledger, receipt, mempool, pending_swaps,
                   executor, ready>>

\* health_handler: a read lock, two reads, a response; nothing is written.
health_handler(cur, queue) ==
    [current_sequence |-> get_current_sequence(cur),
     pending_swaps |-> get_pending_count(queue)]

HealthCall ==
    /\ ~WriteLocked
    /\ health_handler(current_sequence, pending_swaps).current_sequence \in Nat
    /\ UNCHANGED vars

\* The request of the relayer's own wallet on the pool it has the accounts of.
OwnRequest ==
    [user_pubkey |-> RelayerKey, pool_id |-> test_pool_id, amount_in |-> 2]

\* The calls that take the tracker's write lock wait for the monitor to drop
\* it; each holds it for the one access it makes.
LockedStamp(h) ==
    ~WriteLocked /\ NoReader /\ ExecuteSwapStampOf(h, {OwnRequest})
LockedAddPendingSwap ==
    ~WriteLocked /\ NoReader /\ AddPendingSwapOf({1}, {OwnRequest})
LockedGetReadySwaps == ~WriteLocked /\ NoReader /\ GetReadySwaps

MirrorNext ==
    \/ MonitorStart
    \/ MonitorRead
    \/ MonitorUpdate
    \/ LockedStamp("h1")
    \/ ExecuteSwapSubmit("h1")
    \/ LockedAddPendingSwap
    \/ LockedGetReadySwaps
    \/ HealthCall

\* The relayer started on a ledger whose sequencer is initialized and whose
\* pool p1 is registered.
MirrorInit ==
    /\ deployed = "lib"
    /\ ledger = [fifo_state |-> [exists |-> TRUE, seq |-> 0],
                 pool_authority_state |->
                     [p \in PoolIds |->
                         IF p = test_pool_id
                         THEN [exists |-> TRUE, pool_id |-> p,
                               fifo_enforced |-> TRUE, created_at |-> 0]
                         ELSE NoPoolAuthorityState],
                 token |-> [s \in Sources |-> NoAllowance],
                 events |-> <<>>, venue_swaps |-> 0, unix_timestamp |-> 0]
    /\ receipt = NoReceipt
    /\ mempool = [c \in Clients |-> Idle]
    /\ current_sequence = 0
    /\ pending_swaps = <<>>
    /\ db = NoValue
    /\ executor = [h \in Handlers |-> Idle]
    /\ ready = NotCalled
    /\ monitor = Sleeping
    /\ restarted = FALSE
    /\ health = [r \in Readers |-> NotReading]

MirrorSpec == MirrorInit /\ [][MirrorNext]_vars

\* ------------------------------------------------- two requests in flight
\* Two swap_handler calls run execute_swap side by side while the monitor
\* refreshes.
HandlersNext ==
    \/ \E h \in Handlers : LockedStamp(h)
    \/ \E h \in Handlers : ExecuteSwapSubmit(h)
    \/ ProcessPendingSwaps

HandlersSpec == MirrorInit /\ [][HandlersNext]_vars

\* ------------------------------------------------ health calls, step by step
\* health_handler: sequence_tracker.read().await; readers share the lock, a
\* writer excludes them.
HealthLock(r) ==
    /\ health[r].pc = "idle"
    /\ ~WriteLocked
    /\ health' = [health EXCEPT ![r] = [pc |-> "locked", current_sequence |-> 0]]
    /\ UNCHANGED <<deployed, restarted, ledger, receipt, mempool, relayer_vars>>

\* let current_seq = tracker.get_current_sequence()
HealthReadSequence(r) ==
    /\ health[r].pc = "locked"
    /\ health' = [health EXCEPT ![r] =
           [pc |-> "read",
            current_sequence |-> get_current_sequence(current_sequence)]]
    /\ UNCHANGED <<deployed, restarted, ledger, receipt, mempool, relayer_vars>>

\* The response a call is about to give: the sequence it read, and the count
\* it reads now.
HealthResponse(r) ==
    [current_sequence |-> health[r].current_sequence,
     pending_swaps |-> get_pending_count(pending_swaps)]

\* pending_swaps: tracker.get_pending_count(), the response, and the guard
\* dropped.
HealthRespond(r) ==
    /\ health[r].pc = "read"
    /\ HealthResponse(r).pending_swaps <= MaxQueue
    /\ health' = [health EXCEPT ![r] = NotReading]
    /\ UNCHANGED <<deployed, restarted, ledger, receipt, mempool, relayer_vars>>

HealthNext ==
    \/ MonitorStart
    \/ MonitorRead
    \/ MonitorUpdate
    \/ LockedStamp("h1")
    \/ ExecuteSwapSubmit("h1")
    \/ LockedAddPendingSwap
    \/ LockedGetReadySwaps
    \/ \E r \in Readers : HealthLock(r)
    \/ \E r \in Readers : HealthReadSequence(r)
    \/ \E r \in Readers : HealthRespond(r)

HealthSpec == MirrorInit /\ [][HealthNext]_vars

\* ------------------------------------------------------ the relayer as run
\* What main starts: the monitor task, and the routes /swap and /health; the
\* process may be stopped and started again.
RunningNext ==
    \/ MonitorStart
    \/ MonitorRead
    \/ MonitorUpdate
    \/ \E h \in Handlers : LockedStamp(h)
    \/ \E h \in Handlers : ExecuteSwapSubmit(h)
    \/ \E r \in Readers : HealthLock(r)
    \/ \E r \in Readers : HealthReadSequence(r)
    \/ \E r \in Readers : HealthRespond(r)
    \/ Restart

RunningSpec == MirrorInit /\ [][RunningNext]_vars

\* ----------------------------------------------------- concurrent senders
\* A client signs and sends a swap transaction; it is applied later.  `valid`
\* records whether the number it carries was seq + 1 when it was sent.
Send(c) ==
    /\ mempool[c].state # "sent"
    /\ \E seq \in 1..MaxSeq, p \in PoolIds, a \in Amounts :
           mempool' = [mempool EXCEPT ![c] =
               [state |-> "sent", tx |-> SwapTx(c, seq, p, a),
                valid |-> (ledger.fifo_state.seq + 1 = seq)]]
    /\ UNCHANGED <<deployed, restarted, health, ledger, receipt, relayer_vars>>

\* The ledger applies a transaction that was sent; the outcome goes to its
\* sender.
Process(c) ==
    /\ mempool[c].state = "sent"
    /\ Apply(mempool[c].tx)
    /\ mempool' = [mempool EXCEPT ![c] =
           [state |-> "done", seq |-> mempool[c].tx.seq,
            valid |-> mempool[c].valid,
            ok |-> receipt'.ok, err |-> receipt'.err]]
    /\ UNCHANGED <<deployed, restarted, health, relayer_vars>>

MempoolNext ==
    \/ InitializeTx
    \/ InitializePoolAuthorityTx
    \/ \E c \in Clients : Send(c)
    \/ \E c \in Clients : Process(c)

\* The ledger under clients whose transactions are in flight together.
MempoolSpec == Init /\ [][MempoolNext]_vars

\* ------------------------------------------------- transactions of any shape
\* Swap transactions whose user, source account and signer are chosen
\* independently: the user need not own the source, the signer need not be the
\* user.
GrantAmounts == {1, 2}

AnyShapeSwapTxs ==
    {[ix |-> SwapIx, seq |-> seq, pool_id |-> "p1", user |-> u,
      source |-> SourceOf(o), amount_in |-> a, signers |-> {k}] :
        u \in Clients, o \in Clients, k \in Users, seq \in 1..MaxSeq,
        a \in GrantAmounts}

SwapOfAnyShape ==
    /\ \E tx \in AnyShapeSwapTxs : Apply(tx)
    /\ UNCHANGED <<deployed, restarted, health, mempool, relayer_vars>>

GrantNext ==
    \/ InitializeTx
    \/ InitializePoolAuthorityTx
    \/ SwapOfAnyShape

GrantSpec == Init /\ [][GrantNext]_vars

Next ==
    \/ Swap
    \/ InitializeTx
    \/ InitializePoolAuthorityTx
    \/ CreatePoolWithAuthorityTx
    \/ Tick

Spec == Init /\ [][Next]_vars

\* ===================================================================== claims
SwapIxs == {"swap_with_pool_authority", "swap_with_seq"}
IsSwapReceipt(r) == r.ix \in SwapIxs
Count(trace, op) == Cardinality({i \in DOMAIN trace : trace[i] = op})
Has(trace, op) == \E i \in DOMAIN trace : trace[i] = op
AccountErrors == {"AccountNotInitialized", "AccountNotSigner"}
LaterStepErrors == {"VenueFailed", "RevokeFailed"}

\* C1: a swap advances the sequence if and only if the number it carries is
\* seq_before + 1 (the other steps succeeding); with any other number it fails
\* and seq is what it was, however often the call is made.
C1_AdvanceIffNextSeq ==
    IsSwapReceipt(receipt) =>
        LET seq == receipt.tx.seq
            before == receipt.seq_before
        IN  /\ receipt.ok => seq = before + 1 /\ ledger.fifo_state.seq = seq
            /\ ~receipt.ok => ledger.fifo_state.seq = before
            /\ seq # before + 1 =>
                   /\ ~receipt.ok
                   /\ receipt.err \in {"BadSeq"} \cup AccountErrors
            /\ (seq = before + 1 /\ ~receipt.ok) =>
                   receipt.err \in AccountErrors \cup LaterStepErrors

\* A swap that carried a number past seq_before + 1 was refused with BadSeq.
C1_Witness ==
    /\ IsSwapReceipt(receipt)
    /\ receipt.err = "BadSeq"
    /\ receipt.tx.seq > receipt.seq_before + 1
    /\ ledger.fifo_state.seq = receipt.seq_before

\* C2: once initialized, seq takes the values 0, 1, 2, ... in this order:
\* every successful swap raises it by exactly one and nothing else changes it.
C2_SeqHistoryGapless ==
    [][LET s == ledger.fifo_state.seq
           t == ledger'.fifo_state.seq
       IN  /\ ~ledger.fifo_state.exists => t = 0
           /\ ledger.fifo_state.exists =>
                  ledger'.fifo_state.exists /\ t \in {s, s + 1}
           /\ (receipt' # receipt /\ IsSwapReceipt(receipt') /\ receipt'.ok)
                  => t = s + 1
           /\ t # s => IsSwapReceipt(receipt') /\ receipt'.ok /\ receipt'.tx.seq = t
      ]_vars

C2_Witness ==
    /\ ledger.fifo_state.seq = 2
    /\ ~receipt.ok

\* C4: a successful unit grants and revokes the delegate's spend permission
\* the same number of times, and in no committed state of the ledger does a
\* source account carry a delegate.
C4_GrantRevokePaired ==
    /\ \A s \in Sources : ledger.token[s] = NoAllowance
    /\ (IsSwapReceipt(receipt) /\ receipt.ok) =>
           /\ Count(receipt.trace, "grant") = 1
           /\ Count(receipt.trace, "revoke") = Count(receipt.trace, "grant")

C4_Witness ==
    /\ IsSwapReceipt(receipt)
    /\ receipt.ok
    /\ Has(receipt.trace, "grant")

\* C5: a unit whose venue call fails has no effect: no event, seq unchanged,
\* no grant left on the source account.
C5_VenueFailureNoEffect ==
    [][(receipt' # receipt /\ IsSwapReceipt(receipt')
            /\ Has(receipt'.trace, "venue_rejected"))
       => /\ ~receipt'.ok
          /\ receipt'.err = "VenueFailed"
          /\ ledger'.events = ledger.events
          /\ ledger'.fifo_state = ledger.fifo_state
          /\ ledger'.token[receipt'.tx.source] = NoAllowance
          /\ ledger' = ledger
      ]_vars

C5_Witness ==
    /\ IsSwapReceipt(receipt)
    /\ receipt.err = "VenueFailed"
    /\ receipt.trace = <<"grant", "venue_rejected">>
    /\ ledger.fifo_state.seq = 1

\* C6: a unit refused for its sequence number is rolled back whole, the grant
\* made earlier in the unit included: seq, the source account's delegate and
\* allowance and the events are as they were.
C6_BadSeqRollsBackGrant ==
    [][(receipt' # receipt /\ IsSwapReceipt(receipt')
            /\ receipt'.err = "BadSeq")
       => /\ ~receipt'.ok
          /\ receipt'.trace = <<"grant">>
          /\ ledger'.fifo_state = ledger.fifo_state
          /\ ledger'.token = ledger.token
          /\ ledger'.events = ledger.events
          /\ ledger' = ledger
      ]_vars

C6_Witness ==
    /\ IsSwapReceipt(receipt)
    /\ receipt.err = "BadSeq"
    /\ receipt.trace = <<"grant">>
    /\ ledger.token[receipt.tx.source] = NoAllowance

\* C7: seq counts the venue exchanges that completed: seq never advances for a
\* unit whose venue call or revoke did not succeed.
C7_SeqCountsVenueExchanges ==
    /\ ledger.fifo_state.seq = ledger.venue_swaps
    /\ Len(ledger.events) = ledger.venue_swaps
    /\ (IsSwapReceipt(receipt) /\ receipt.ok) =>
           receipt.trace = <<"grant", "venue", "revoke", "advance", "emit">>

\* After one completed exchange a unit failed at its revoke, the venue call
\* made within it undone.
C7_Witness ==
    /\ ledger.venue_swaps = 1
    /\ ledger.fifo_state.seq = 1
    /\ receipt.err = "RevokeFailed"
    /\ Has(receipt.trace, "venue")

\* C8: initialize takes the sequencer from Uninitialized to Ready with
\* seq = 0 and fails, seq unchanged, when it is initialized already; from
\* seq = 0 a swap carrying 1 gives seq = 1.
C8_InitializeOnce ==
    [][/\ (receipt' # receipt /\ receipt'.ix = "initialize") =>
              IF ledger.fifo_state.exists
              THEN ~receipt'.ok /\ ledger' = ledger
              ELSE /\ receipt'.ok
                   /\ ledger'.fifo_state = [exists |-> TRUE, seq |-> 0]
       /\ (ledger.fifo_state.exists /\ ledger.fifo_state.seq > 0) =>
              ledger'.fifo_state.seq > 0
       /\ (receipt' # receipt /\ IsSwapReceipt(receipt') /\ receipt'.ok
               /\ ledger.fifo_state.seq = 0) =>
              receipt'.tx.seq = 1 /\ ledger'.fifo_state.seq = 1
      ]_vars

C8_Witness ==
    /\ receipt.ix = "initialize"
    /\ ~receipt.ok
    /\ ledger.fifo_state.seq = 2

\* C9 (as amended): the first initialize_pool_authority for a pool id creates
\* its record; every later one for that id fails, rejected by the account's
\* init constraint, and leaves the record as it is; other pools' records are
\* not touched.
C9_RegisterPoolOnce ==
    [][(receipt' # receipt /\ receipt'.ix = "initialize_pool_authority"
            /\ deployed = "lib")
       => LET p == receipt'.tx.pool_id IN
          IF ledger.pool_authority_state[p].exists
          THEN /\ ~receipt'.ok
               /\ receipt'.err = "AccountAlreadyInUse"
               /\ ledger' = ledger
          ELSE /\ receipt'.ok
               /\ ledger'.pool_authority_state[p] =
                      [exists |-> TRUE, pool_id |-> p, fifo_enforced |-> TRUE,
                       created_at |-> ledger.unix_timestamp]
               /\ \A q \in PoolIds \ {p} :
                      ledger'.pool_authority_state[q] = ledger.pool_authority_state[q]
               /\ ledger'.fifo_state = ledger.fifo_state
      ]_vars

\* A second registration of p1, made after the clock moved, was refused while
\* p2 was registered in between.
C9_Witness ==
    /\ receipt.ix = "initialize_pool_authority"
    /\ receipt.tx.pool_id = "p1"
    /\ ~receipt.ok
    /\ ledger.pool_authority_state["p1"].exists
    /\ ledger.pool_authority_state["p1"].created_at < ledger.unix_timestamp
    /\ ledger.pool_authority_state["p2"].exists

\* C9 as the claim states it: the later call fails with PoolAlreadyRegistered.
C9_FailsWithPoolAlreadyRegistered ==
    (receipt.ix = "initialize_pool_authority" /\ deployed = "lib" /\ ~receipt.ok)
        => receipt.err = "PoolAlreadyRegistered"

\* ------------------------------------------------------------------- C10
\* The relayer's handler returned in this step from the execution it had
\* stamped.
Returned(h) ==
    /\ executor[h].state = "stamped"
    /\ executor'[h].state = "returned"

\* The ledger, its sequencer initialized, applied in this step a swap
\* transaction naming pool p.
AppliedSwapOn(p) ==
    /\ ledger.fifo_state.exists
    /\ receipt' # receipt
    /\ IsSwapReceipt(receipt')
    /\ receipt'.tx.pool_id = p

NothingHappened ==
    /\ ledger' = ledger
    /\ current_sequence' = current_sequence
    /\ pending_swaps' = pending_swaps

\* The execution of an unregistered pool fails with one of `lookup_errs` when
\* the metadata lookup has no entry and one of `ledger_errs` when the ledger
\* has no pool authority record, and changes nothing.
UnregisteredPoolFails(lookup_errs, ledger_errs) ==
    /\ \A h \in Handlers :
          Returned(h) /\ executor[h].request.pool_id # test_pool_id
              => /\ ~executor'[h].ok
                 /\ executor'[h].err \in lookup_errs
                 /\ receipt' = receipt
                 /\ NothingHappened
    /\ \A p \in PoolIds :
          AppliedSwapOn(p) /\ ~ledger.pool_authority_state[p].exists
              => /\ ~receipt'.ok
                 /\ receipt'.err \in ledger_errs
                 /\ ~Has(receipt'.trace, "venue")
                 /\ ~Has(receipt'.trace, "venue_rejected")
                 /\ \A h \in Handlers :
                       Returned(h) => /\ ~executor'[h].ok
                                      /\ executor'[h].err \in
                                             ledger_errs \cup {TimedOut}
                 /\ NothingHappened

\* C10: an execution whose pool is not registered fails and has no effect:
\* nothing reaches the venue, no grant is left, seq is unchanged, no event is
\* emitted, and the relayer's cached sequence and queue are unchanged.  The
\* relayer answers "Pool not found" when load_pool_accounts has no entry; when
\* the ledger has no pool authority record the transaction is refused with
\* AccountNotInitialized.
C10_UnregisteredPoolNoEffect ==
    [][UnregisteredPoolFails({"Pool not found"}, {"AccountNotInitialized"})]_vars

\* With seq = 1 on the ledger and in the relayer, the relayer's transaction
\* for the unregistered pool p1 was refused by the ledger, and its next
\* request, for a pool it has no accounts of, was answered "Pool not found".
C10_Witness ==
    /\ ledger.fifo_state.exists
    /\ ledger.fifo_state.seq = 1
    /\ current_sequence = 1
    /\ ~ledger.pool_authority_state["p1"].exists
    /\ IsSwapReceipt(receipt)
    /\ receipt.tx.signers = {RelayerKey}
    /\ receipt.tx.seq = 2
    /\ receipt.err = "AccountNotInitialized"
    /\ executor["h1"].state = "returned"
    /\ executor["h1"].err = "Pool not found"
    /\ ledger.token[SourceOf(RelayerKey)] = NoAllowance

\* C10 as the claim states it: both cases fail with PoolNotFound.
C10_FailsWithPoolNotFound ==
    [][UnregisteredPoolFails({"Pool not found"}, {"Pool not found"})]_vars


\* C3: of the swaps sent while their number was the valid one (seq + 1) and
\* carrying that same number, exactly one succeeds and every other fails with
\* BadSeq, unless it fails for another reason; the pools they name may differ.
C3_OneWinnerPerSeq ==
    \A a \in Clients : \A b \in Clients \ {a} :
        (/\ mempool[a].state = "done" /\ mempool[b].state = "done"
         /\ mempool[a].seq = mempool[b].seq
         /\ mempool[a].valid /\ mempool[b].valid
         /\ mempool[a].err \in {"none", "BadSeq"}
         /\ mempool[b].err \in {"none", "BadSeq"})
        => \/ mempool[a].ok /\ mempool[b].err = "BadSeq"
           \/ mempool[b].ok /\ mempool[a].err = "BadSeq"

\* Two swaps carrying 2 were sent at seq = 1 for different pools; u1's won and
\* u2's was refused.
C3_Witness ==
    /\ mempool["u1"].state = "done" /\ mempool["u2"].state = "done"
    /\ mempool["u1"].seq = 2 /\ mempool["u2"].seq = 2
    /\ mempool["u1"].valid /\ mempool["u2"].valid
    /\ mempool["u1"].ok
    /\ mempool["u2"].err = "BadSeq"
    /\ ledger.fifo_state.seq = 2
    /\ ledger.events[2] = [seq |-> 2, user |-> "u1", pool_id |-> "p1"]
    /\ receipt.tx.user = "u2" /\ receipt.tx.pool_id = "p2"

\* ------------------------------------------------------------------- C11
\* The ledger applied a swap transaction in this step.
AppliedSwap ==
    /\ receipt' # receipt
    /\ IsSwapReceipt(receipt')

OwnerAuthorizes(tx) == tx.user = OwnerOf(tx.source) /\ tx.user \in tx.signers

\* C11: the grant of a swap unit is for exactly amount_in over exactly the
\* unit's source account, to the delegate derived from it, and leaves every
\* other account alone; it is the first step of the unit that swaps; and a
\* unit in which the source's owner has not authorized the grant changes
\* nothing.
C11_GrantExactAndAuthorized ==
    [][AppliedSwap =>
        LET tx == receipt'.tx
            g == ApproveInstruction(ledger, tx)
        IN  /\ receipt'.ok =>
                  /\ OwnerAuthorizes(tx)
                  /\ g.ok
                  /\ g.st = [ledger EXCEPT !.token[tx.source] =
                                [delegate |-> derive_delegate(tx.source),
                                 delegated_amount |-> tx.amount_in]]
                  /\ receipt'.trace[1] = "grant"
                  /\ Count(receipt'.trace, "grant") = 1
            /\ ~OwnerAuthorizes(tx) =>
                  /\ ~receipt'.ok
                  /\ ~Has(receipt'.trace, "venue")
                  /\ ledger' = ledger]_vars

\* u2 swapped 1 token from its own account; then a unit that names u2 as user
\* and u2's account as source but is signed by the relayer alone was refused.
C11_Witness ==
    /\ ledger.fifo_state.seq = 1
    /\ ledger.events[1].user = "u2"
    /\ IsSwapReceipt(receipt)
    /\ receipt.tx.seq = 2
    /\ receipt.tx.user = "u2"
    /\ receipt.tx.source = SourceOf("u2")
    /\ receipt.tx.signers = {RelayerKey}
    /\ receipt.err = "MissingRequiredSignature"

\* ------------------------------------------------------------------- C12
InvokedVenue(trace) == Count(trace, "venue") + Count(trace, "venue_rejected")

\* The seeds the applied swap instruction hands to invoke_signed.
SeedsSupplied(L, tx) ==
    IF tx.ix = "swap_with_pool_authority"
    THEN signer_seeds(tx.source, L.pool_authority_state[tx.pool_id].pool_id)
    ELSE signer_seeds_v1(tx.source)

CustodyControlled(L, pool_id) ==
    IF L.pool_authority_state[pool_id].exists
    THEN L.pool_authority_state[pool_id].fifo_enforced
    ELSE FALSE

EventOf(L, tx) ==
    IF tx.ix = "swap_with_pool_authority"
    THEN [seq |-> tx.seq, user |-> tx.user,
          pool_id |-> L.pool_authority_state[tx.pool_id].pool_id]
    ELSE [seq |-> tx.seq, user |-> tx.user]

EventLogMatchesSeq(L) ==
    /\ Len(L.events) = L.fifo_state.seq
    /\ \A k \in 1..Len(L.events) : L.events[k].seq = k

\* C13: the event log is append-only; a successful swap appends exactly one
\* event, carrying its seq, its signing user and the pool_id of the pool
\* authority record it used; nothing else changes the log; the number of
\* events equals seq and the k-th event carries seq = k.
C13_EventPerSuccessfulSwap ==
    [][/\ EventLogMatchesSeq(ledger')
       /\ IF AppliedSwap /\ receipt'.ok
          THEN /\ ledger'.events = Append(ledger.events,
                                          EventOf(ledger, receipt'.tx))
               /\ receipt'.tx.user \in receipt'.tx.signers
               /\ Count(receipt'.trace, "emit") = 1
          ELSE ledger'.events = ledger.events]_vars

\* Two swaps, by different users on different pools, left two events; the
\* swap that failed after them left none.
C13_Witness ==
    /\ deployed = "lib"
    /\ ledger.events = << [seq |-> 1, user |-> "u2", pool_id |-> "p2"],
                          [seq |-> 2, user |-> "u1", pool_id |-> "p1"] >>
    /\ IsSwapReceipt(receipt)
    /\ ~receipt.ok
    /\ receipt.seq_before = 2

\* ------------------------------------------------------------------- C14
\* C14: whatever current_sequence and the queue are, get_ready_swaps returns
\* no entry whose seq is at most current_sequence, and what it returns,
\* followed by what it leaves, is the queue as it was: the entries come out in
\* the order they were queued in.
C14_ReadyNeverStaleNorReordered ==
    LET r == get_ready_swaps(current_sequence, pending_swaps)
    IN  /\ \A i \in 1..Len(r.ready) : r.ready[i].seq > current_sequence
        /\ r.ready \o r.pending_swaps = pending_swaps

\* With current_sequence = 1 and stale entries possible, a call returned two
\* entries numbered 2 in the order they were queued in.
C14_Witness ==
    /\ current_sequence = 1
    /\ ready.called
    /\ ready.swaps =
          << [seq |-> 2, request |-> [user_pubkey |-> "u1",
                    pool_id |-> test_pool_id, amount_in |-> 2]],
             [seq |-> 2, request |-> [user_pubkey |-> RelayerKey,
                    pool_id |-> test_pool_id, amount_in |-> 2]] >>
    /\ pending_swaps = <<>>

\* ------------------------------------------------------------------- C15
\* C15: when the front entry's seq is not current_sequence + 1,
\* get_ready_swaps returns nothing and leaves the queue as it is, whatever
\* stands behind the front; in every case it removes a prefix of the queue.
C15_FrontBlocksQueue ==
    LET r == get_ready_swaps(current_sequence, pending_swaps)
        n == Len(r.ready)
    IN  /\ n <= Len(pending_swaps)
        /\ r.ready = SubSeq(pending_swaps, 1, n)
        /\ r.pending_swaps = SubSeq(pending_swaps, n + 1, Len(pending_swaps))
        /\ pending_swaps # <<>> /\ Head(pending_swaps).seq # current_sequence + 1
               => r.ready = <<>> /\ r.pending_swaps = pending_swaps

\* A call returned nothing and left both entries queued: the front one is
\* numbered 3 while current_sequence is 1, the one behind it is numbered 2.
C15_Witness ==
    /\ current_sequence = 1
    /\ ready.called
    /\ ready.swaps = <<>>
    /\ Len(pending_swaps) = 2
    /\ pending_swaps[1].seq = 3
    /\ pending_swaps[2].seq = 2

\* ------------------------------------------------------------------- C16
\* A step of process_pending_swaps: nothing but the tracker's cached value and
\* the database can differ.
RefreshStep ==
    /\ ledger' = ledger
    /\ receipt' = receipt
    /\ executor' = executor
    /\ pending_swaps' = pending_swaps
    /\ ready' = ready
    /\ monitor' = monitor

\* The refresh failed: after it the database does not hold the value read
\* from the ledger (the read failed, or the insert did).
RefreshFailed ==
    /\ RefreshStep
    /\ \/ ~ledger.fifo_state.exists
       \/ db' # [present |-> TRUE, value |-> to_le_bytes(ledger.fifo_state.seq)]

\* C16: a refresh that fails, at the ledger read or at the database write,
\* leaves current_sequence as it was.
C16_FailedRefreshKeepsCachedValue ==
    [][RefreshFailed => current_sequence' = current_sequence]_vars

\* The cached value is 1, the ledger's seq, while the database holds no value:
\* the insert of the refresh that set it failed.
C16_Witness ==
    /\ ledger.fifo_state.seq = 1
    /\ current_sequence = 1
    /\ db = NoValue

\* ------------------------------------------------------------------- C17
\* C17: at most one process_pending_swaps call is in progress at any time,
\* and current_sequence changes only in the step in which that call stores
\* the value it read: no step of execute_swap, add_pending_swap,
\* get_ready_swaps or health changes it.
C17_MonitorSoleWriter ==
    [][/\ monitor'.running <= 1
       /\ current_sequence' # current_sequence =>
             /\ monitor.pc = "updating"
             /\ monitor'.pc = "sleeping"
             /\ current_sequence' = monitor.observed
             /\ executor' = executor
             /\ pending_swaps' = pending_swaps
             /\ ready' = ready
             /\ ledger' = ledger]_vars

\* The relayer's swap advanced the ledger to 1, a refresh stored 1, entries
\* were queued and one was drained, and the next refresh is under way.
C17_Witness ==
    /\ ledger.fifo_state.seq = 1
    /\ current_sequence = 1
    /\ executor["h1"].state = "returned"
    /\ executor["h1"].ok
    /\ ready.called
    /\ Len(ready.swaps) = 1
    /\ Len(pending_swaps) = 2
    /\ monitor.pc = "reading"

\* ------------------------------------------------------------------- C18
\* The handler stamped a request in this step.
Stamped(h) ==
    /\ executor[h].state # "stamped"
    /\ executor'[h].state = "stamped"

\* The handler's transaction went to the ledger in this step.
Submitted(h) ==
    /\ Returned(h)
    /\ load_pool_accounts(executor[h].request.pool_id)
    /\ ~SignFails(RelayerTx(executor[h].request, executor[h].next_seq))

\* C18: get_next_sequence returns current_sequence + 1 and changes nothing in
\* the tracker; the transaction execute_swap submits carries the value it
\* read, whatever current_sequence has become since; the sequence in the
\* response is the value the transaction carried.
C18_StampedValueCarried ==
    [][\A h \in Handlers :
        /\ Stamped(h) =>
              /\ executor'[h].next_seq = current_sequence + 1
              /\ get_next_sequence(current_sequence) = current_sequence + 1
              /\ UNCHANGED <<current_sequence, pending_swaps, db>>
        /\ Submitted(h) =>
              /\ \/ /\ executor'[h].err = TimedOut
                    /\ UNCHANGED <<ledger, receipt>>
                 \/ /\ receipt'.tx.seq = executor[h].next_seq
                    /\ receipt'.tx.ix = "swap_with_pool_authority"
                    /\ receipt'.tx.signers = {RelayerKey}
                    /\ executor'[h].ok => receipt'.ok
                    /\ executor'[h].err # TimedOut
                           => executor'[h].ok = receipt'.ok
              /\ executor'[h].sequence = executor[h].next_seq]_vars

\* The relayer's transaction stamped 2 succeeded and the response reports 2,
\* while the tracker still holds 1.
C18_Witness ==
    /\ executor["h1"].state = "returned"
    /\ executor["h1"].ok
    /\ executor["h1"].sequence = 2
    /\ receipt.ok
    /\ receipt.tx.seq = 2
    /\ receipt.tx.signers = {RelayerKey}
    /\ ledger.fifo_state.seq = 2
    /\ current_sequence = 1

\* ------------------------------------------------------------------- C19
\* What the database holds: the value of the last insert that succeeded, or
\* nothing.
Persisted(database) ==
    IF database.present THEN from_le_bytes(database.value) ELSE 0

\* The process was started again in this step.
Restarted == ~restarted /\ restarted'

\* C19: the database changes only when a refresh succeeds, to the value of
\* that refresh; after a restart current_sequence is that value (0 if no
\* refresh ever succeeded) and the pending queue is empty, whatever was
\* queued; nothing else of the tracker survives.
C19_OnlySequencePersisted ==
    [][/\ db' # db =>
             /\ db' = [present |-> TRUE, value |-> to_le_bytes(current_sequence')]
             /\ Persisted(db') = current_sequence'
       /\ Restarted =>
             /\ db' = db
             /\ current_sequence' = Persisted(db)
             /\ pending_swaps' = <<>>
             /\ ready' = NotCalled]_vars

\* The process has been started again and the tracker holds 1, the value of
\* the one insert that succeeded, and an empty queue.
C19_Witness ==
    /\ restarted
    /\ current_sequence = 1
    /\ db = [present |-> TRUE, value |-> <<1, 0, 0, 0, 0, 0, 0, 0>>]
    /\ pending_swaps = <<>>
    /\ ready = NotCalled

\* ------------------------------------------------------------------- C20
\* C20: a request that has been stamped ends in one step with a response; by
\* then at most one transaction has been handed to the ledger for it and the
\* ledger has applied at most one; a failure (the pool lookup, the signing, a
\* refusal by the ledger or the venue, a stale sequence number, a missing
\* confirmation) is in the response and nothing is sent again.
C20_NoRetry ==
    [][\A h \in Handlers :
        executor[h].state = "stamped" /\ executor'[h] # executor[h] =>
            /\ executor'[h].state = "returned"
            /\ executor'[h].sent <= 1
            /\ executor'[h].sent = 0 => UNCHANGED <<ledger, receipt>>
            /\ ledger' # ledger => receipt'.tx = RelayerTx(executor[h].request,
                                                          executor[h].next_seq)
            /\ Len(ledger'.events) <= Len(ledger.events) + 1
            /\ ledger'.venue_swaps <= ledger.venue_swaps + 1
            /\ ~executor'[h].ok => executor'[h].err # "none"]_vars

\* The relayer's transaction stamped 1 met seq = 1 on the ledger, was refused
\* with BadSeq, and the handler returned that after one submission.
C20_Witness ==
    /\ executor["h1"].state = "returned"
    /\ ~executor["h1"].ok
    /\ executor["h1"].err = "BadSeq"
    /\ executor["h1"].sent = 1
    /\ executor["h1"].sequence = 1
    /\ receipt.tx.signers = {RelayerKey}
    /\ receipt.err = "BadSeq"
    /\ ledger.fifo_state.seq = 1

\* ------------------------------------------------------------------- C21
\* The step is a start of the process: the tracker comes up with what the
\* database holds.
StartsFromDatabase ==
    /\ restarted'
    /\ db' = db
    /\ current_sequence' = Persisted(db)

\* C21: apart from a start of the process, current_sequence and the database
\* change only to the seq the ledger holds at that moment; with the monitor task kept running and refreshes that keep
\* succeeding, once the ledger's seq has stopped changing current_sequence
\* comes to equal it and stays equal.
C21_MirrorConverges ==
    /\ [][/\ current_sequence' # current_sequence
                => \/ /\ ledger.fifo_state.exists
                      /\ current_sequence' = ledger.fifo_state.seq
                   \/ StartsFromDatabase
          /\ db' # db
                => /\ ledger.fifo_state.exists
                   /\ Persisted(db') = ledger.fifo_state.seq
                   /\ current_sequence' = ledger.fifo_state.seq]_vars
    /\ \A s \in 0..MaxSeq :
          <>[](ledger.fifo_state.exists /\ ledger.fifo_state.seq = s)
              => <>[](current_sequence = s)

\* The ledger has reached seq 2 and the tracker, restarted on a database that
\* holds 2, holds 2.
C21_Witness ==
    /\ ledger.fifo_state.seq = 2
    /\ current_sequence = 2
    /\ db = [present |-> TRUE, value |-> to_le_bytes(2)]
    /\ restarted

\* ------------------------------------------------------------------- C22
\* The effects of a swap transaction in the order the code has them.
EffectOrder == <<"grant", "venue", "revoke", "advance", "emit">>

IsPrefix(s, t) == Len(s) <= Len(t) /\ s = SubSeq(t, 1, Len(s))

\* C22: the effects of a successful swap transaction are, in this order, the
\* grant, the call into the venue, the revoke, the advance of seq and the
\* event; a failed one got through a prefix of that order, the last step
\* possibly a call the venue rejected, and never advanced seq or emitted.
C22_EffectsInOrder ==
    IsSwapReceipt(receipt) =>
        /\ receipt.ok => receipt.trace = EffectOrder
        /\ ~receipt.ok =>
              /\ \/ IsPrefix(receipt.trace, <<"grant", "venue">>)
                 \/ receipt.trace = <<"grant", "venue_rejected">>
              /\ ~Has(receipt.trace, "advance")
              /\ ~Has(receipt.trace, "emit")

\* The swap numbered 2 went through all five steps; no allowance is left and
\* the second event is logged.
C22_Witness ==
    /\ IsSwapReceipt(receipt)
    /\ receipt.ok
    /\ receipt.tx.seq = 2
    /\ receipt.trace = EffectOrder
    /\ ledger.fifo_state.seq = 2
    /\ Len(ledger.events) = 2
    /\ ledger.token[receipt.tx.source] = NoAllowance

\* ------------------------------------------------------------------- C23
\* get_ready_swaps was called in this step and released entries or reported
\* its first result.
Drained ==
    /\ ready'.called
    /\ ready' # ready \/ Len(pending_swaps') < Len(pending_swaps)

\* The queue begins with the entries numbered current_sequence + 1 and
\* current_sequence + 2.
NextTwoQueued ==
    /\ Len(pending_swaps) >= 2
    /\ pending_swaps[1].seq = current_sequence + 1
    /\ pending_swaps[2].seq = current_sequence + 2

\* C23: get_ready_swaps leaves current_sequence and the database as they
\* were; with the entries numbered current_sequence + 1 and + 2 at the front
\* one call returns the first alone and leaves the second at the front, a
\* further call at the same current_sequence returns nothing, and the second
\* entry is released once current_sequence is one more.
C23_DrainKeepsExpectation ==
    [][/\ Drained => /\ current_sequence' = current_sequence
                     /\ db' = db
                     /\ ready'.swaps =
                            get_ready_swaps(current_sequence, pending_swaps).ready
       /\ NextTwoQueued =>
             LET first == get_ready_swaps(current_sequence, pending_swaps)
                 again == get_ready_swaps(current_sequence, first.pending_swaps)
                 later == get_ready_swaps(current_sequence + 1,
                                          first.pending_swaps)
             IN  /\ first.ready = <<pending_swaps[1]>>
                 /\ first.pending_swaps = Tail(pending_swaps)
                 /\ again.ready = <<>>
                 /\ again.pending_swaps = first.pending_swaps
                 /\ later.ready # <<>>
                 /\ later.ready[1] = pending_swaps[2]]_vars

\* current_sequence = 1 and the queue held (2, A), (3, B): the call returned
\* (2, A) alone and (3, B) is at the front.
C23_Witness ==
    /\ current_sequence = 1
    /\ ready.called
    /\ Len(ready.swaps) = 1
    /\ ready.swaps[1].seq = 2
    /\ Len(pending_swaps) = 1
    /\ pending_swaps[1].seq = 3

\* ------------------------------------------------------------------- C24
\* The ledger applied a transaction of instruction `ix` in this step.
AppliedIx(ix) == receipt' # receipt /\ receipt'.ix = ix

\* C24: the FifoState account, once created, is never deleted, and its seq
\* changes only in a step that applies a successful swap, to the number the
\* swap carries, one more than before; initialize_pool_authority,
\* create_pool_with_authority, a failed initialize and a failed swap leave the
\* account as it was.
C24_SwapSoleMutationOfSeq ==
    [][/\ ledger.fifo_state.exists => ledger'.fifo_state.exists
       /\ ledger.fifo_state.exists /\ ledger'.fifo_state # ledger.fifo_state
             => /\ IsSwapReceipt(receipt')
                /\ receipt'.ok
                /\ receipt'.seq_before = ledger.fifo_state.seq
                /\ ledger'.fifo_state.seq = ledger.fifo_state.seq + 1
                /\ ledger'.fifo_state.seq = receipt'.tx.seq
       /\ AppliedIx("initialize_pool_authority")
             => ledger'.fifo_state = ledger.fifo_state
       /\ AppliedIx("create_pool_with_authority")
             => ledger'.fifo_state = ledger.fifo_state
       /\ AppliedIx("initialize") /\ ~receipt'.ok
             => ledger'.fifo_state = ledger.fifo_state
       /\ (\E ix \in SwapIxs : AppliedIx(ix)) /\ ~receipt'.ok
             => ledger'.fifo_state = ledger.fifo_state]_vars

\* With seq = 1 a pool was registered: seq is still 1.
C24_Witness ==
    /\ receipt.ix = "initialize_pool_authority"
    /\ receipt.ok
    /\ ledger.fifo_state.exists
    /\ ledger.fifo_state.seq = 1
    /\ Len(ledger.events) = 1
    /\ \A p \in PoolIds : ledger.pool_authority_state[p].exists

\* ------------------------------------------------------------------- C25
\* C25: a pool authority record that exists has the same pool_id, created_at
\* and fifo_enforced after every step, be it a swap that succeeds or fails, a
\* registration, an initialization or the passing of time.
C25_PoolAuthorityImmutable ==
    [][\A p \in PoolIds :
          ledger.pool_authority_state[p].exists
              => /\ ledger'.pool_authority_state[p].exists
                 /\ ledger'.pool_authority_state[p].pool_id =
                        ledger.pool_authority_state[p].pool_id
                 /\ ledger'.pool_authority_state[p].created_at =
                        ledger.pool_authority_state[p].created_at
                 /\ ledger'.pool_authority_state[p].fifo_enforced =
                        ledger.pool_authority_state[p].fifo_enforced]_vars

\* The record of p1, created at time 0, is as it was after time has passed,
\* two swaps on p1 have succeeded and a third transaction has failed.
C25_Witness ==
    /\ ledger.pool_authority_state["p1"] =
           [exists |-> TRUE, pool_id |-> "p1", fifo_enforced |-> TRUE,
            created_at |-> 0]
    /\ ledger.unix_timestamp = 1
    /\ ledger.fifo_state.seq = 2
    /\ \A i \in 1..2 : ledger.events[i].pool_id = "p1"
    /\ ~receipt.ok

\* ------------------------------------------------------------------- C26
\* The pair a health response reports.
Snapshot == [current_sequence |-> get_current_sequence(current_sequence),
             pending_swaps |-> get_pending_count(pending_swaps)]

\* C26: no health call holds the read lock while process_pending_swaps holds
\* the write lock; while a health call holds the lock current_sequence and the
\* queue do not change, by refresh, enqueue or drain, so the sequence it has
\* read is the current one and its response is the pair of one state.
C26_ReadersSeeOneSnapshot ==
    [][/\ ~(ReadLocked /\ WriteLocked)
       /\ ReadLocked => UNCHANGED <<current_sequence, pending_swaps>>
       /\ \A r \in Readers :
             health[r].pc = "read" => HealthResponse(r) = Snapshot]_vars

\* Two health calls hold the read lock together, both having read
\* current_sequence = 1 with one entry queued.
C26_Witness ==
    /\ \A r \in Readers : health[r] = [pc |-> "read", current_sequence |-> 1]
    /\ current_sequence = 1
    /\ Len(pending_swaps) = 1
    /\ ledger.fifo_state.seq = 1
    /\ ~WriteLocked

\* ------------------------------------------------------------------- C27
\* The last transaction applied was the relayer's and failed the check of its
\* sequence number.
RelayerBadSeq ==
    /\ IsSwapReceipt(receipt)
    /\ receipt.tx.signers = {RelayerKey}
    /\ receipt.err = "BadSeq"

\* C27: current_sequence and the persisted value are never above the
\* ledger's seq, so get_next_sequence and every number a handler has stamped
\* are at most seq + 1, and a transaction of the relayer that fails with
\* BadSeq carries a number the ledger has already passed.
C27_MirrorNeverAhead ==
    /\ current_sequence <= ledger.fifo_state.seq
    /\ Persisted(db) <= ledger.fifo_state.seq
    /\ get_next_sequence(current_sequence) <= ledger.fifo_state.seq + 1
    /\ \A h \in Handlers :
          executor[h].state = "stamped"
              => executor[h].next_seq <= ledger.fifo_state.seq + 1
    /\ RelayerBadSeq => receipt.tx.seq <= receipt.seq_before

\* After a restart the tracker holds 1 while the ledger is at 2; the
\* relayer's transaction stamped 2 failed with BadSeq.
C27_Witness ==
    /\ restarted
    /\ current_sequence = 1
    /\ ledger.fifo_state.seq = 2
    /\ RelayerBadSeq
    /\ receipt.tx.seq = 2
    /\ receipt.seq_before = 2

\* ------------------------------------------------------------------- C28
\* The events of swaps the relayer submitted for its own wallet.
RelayerEvents == {i \in DOMAIN ledger.events : ledger.events[i].user = RelayerKey}

\* The number handler h has read from the tracker, if it has read one.
StampOf(h) ==
    IF executor[h].state = "stamped" THEN executor[h].next_seq
    ELSE IF executor[h].state = "returned" THEN executor[h].sequence
    ELSE 0

\* C28 as the claim states it, for a tracker that started at 0: as long as
\* no refresh has succeeded (the database holds nothing) every execute_swap
\* call is stamped 1 and at most one swap of the relayer succeeds.
C28_SameStampUntilRefreshSucceeds ==
    ~db.present =>
        /\ \A h \in Handlers : executor[h].state # "idle" => StampOf(h) = 1
        /\ Cardinality(RelayerEvents) <= 1

\* No refresh has succeeded, and two swaps of the relayer, stamped 1 and 2,
\* have.
C28_Witness ==
    /\ ~db.present
    /\ executor["h1"].state = "returned" /\ executor["h1"].ok
    /\ executor["h2"].state = "returned" /\ executor["h2"].ok
    /\ {StampOf("h1"), StampOf("h2")} = {1, 2}
    /\ Cardinality(RelayerEvents) = 2
    /\ ledger.fifo_state.seq = 2

\* ------------------------------------------------------------------- C29
\* The swap last applied carried a number other than seq + 1.
MismatchingSwap ==
    /\ IsSwapReceipt(receipt)
    /\ receipt.tx.seq # receipt.seq_before + 1

\* C29: a swap whose number is not seq + 1 fails without the venue having
\* been called, accepted or rejected, and without the revoke having run; when
\* its accounts and its approve are in order the error is BadSeq.
C29_SeqCheckBeforeVenue ==
    MismatchingSwap =>
        /\ ~receipt.ok
        /\ ~Has(receipt.trace, "venue")
        /\ ~Has(receipt.trace, "venue_rejected")
        /\ ~Has(receipt.trace, "revoke")
        /\ IsPrefix(receipt.trace, <<"grant">>)
        /\ receipt.trace = <<"grant">> /\ HasInstruction(deployed, receipt.ix)
              /\ receipt.err \notin AccountErrors
              => receipt.err = "BadSeq"

\* On a registered pool a swap carrying 2 at seq = 0 failed with BadSeq after
\* the grant alone; the venue has seen no exchange and no allowance is left.
C29_Witness ==
    /\ MismatchingSwap
    /\ receipt.tx.seq = 2
    /\ receipt.seq_before = 0
    /\ receipt.err = "BadSeq"
    /\ receipt.trace = <<"grant">>
    /\ ledger.pool_authority_state[receipt.tx.pool_id].exists
    /\ ledger.venue_swaps = 0
    /\ ledger.fifo_state.seq = 0
    /\ ledger.token[receipt.tx.source] = NoAllowance

\* ------------------------------------------------------------------- C30
\* C30: every entry a get_ready_swaps call returns is numbered
\* current_sequence + 1, current_sequence being the value at the start of the
\* call; the call returns more than one entry only when the entries at the
\* front carry that same number, and then it returns all of them: what is
\* left does not begin with an entry numbered current_sequence + 1.
C30_ReleasedAreNextOrDuplicates ==
    [][LET r == get_ready_swaps(current_sequence, pending_swaps)
           n == Len(r.ready)
       IN  /\ \A i \in 1..n : r.ready[i].seq = current_sequence + 1
           /\ n > 1 => \A i \in 1..n : pending_swaps[i].seq = pending_swaps[1].seq
           /\ r.ready = SubSeq(pending_swaps, 1, n)
           /\ r.pending_swaps # <<>>
                 => Head(r.pending_swaps).seq # current_sequence + 1
           /\ Drained =>
                 /\ ready'.swaps = r.ready
                 /\ pending_swaps' = r.pending_swaps
                 /\ \A i \in 1..Len(ready'.swaps) :
                       ready'.swaps[i].seq = current_sequence + 1]_vars

\* With current_sequence = 1 two requests were queued under the number 2;
\* one call returned both.
C30_Witness ==
    /\ current_sequence = 1
    /\ ready.called
    /\ Len(ready.swaps) = 2
    /\ ready.swaps[1].seq = 2 /\ ready.swaps[2].seq = 2
    /\ ready.swaps[1].request # ready.swaps[2].request
    /\ pending_swaps = <<>>

\* ------------------------------------------------------------------- C31
\* The entry at the front of the queue carries a number the sequence has
\* reached or passed.
StaleFront ==
    /\ pending_swaps # <<>>
    /\ Head(pending_swaps).seq <= current_sequence

\* The process starts again in this step: the tracker comes up with an empty
\* queue.
ProcessStarts ==
    /\ restarted'
    /\ ready' = NotCalled
    /\ pending_swaps' = <<>>

\* C31: with a stale entry at the front, every step that is not a start of
\* the process and does not lower current_sequence leaves that entry at the
\* front and stale, removes nothing from the queue, and, if it is a
\* get_ready_swaps call, returns nothing; so no later call releases an entry
\* until the process restarts.
C31_StaleFrontBlocksForGood ==
    /\ [][StaleFront /\ ~ProcessStarts /\ current_sequence' >= current_sequence
          => /\ StaleFront'
             /\ Head(pending_swaps') = Head(pending_swaps)
             /\ Len(pending_swaps') >= Len(pending_swaps)
             /\ SubSeq(pending_swaps', 1, Len(pending_swaps)) = pending_swaps
             /\ get_ready_swaps(current_sequence', pending_swaps').ready = <<>>
             /\ Drained => ready'.swaps = <<>>]_vars
    /\ [][Len(pending_swaps') < Len(pending_swaps)
             => Drained \/ ProcessStarts]_vars

\* current_sequence is 2 and the queue holds the entries numbered 1 and 3:
\* a get_ready_swaps call has returned nothing, the entry numbered 3 waiting
\* behind the stale one.
C31_Witness ==
    /\ current_sequence = 2
    /\ Len(pending_swaps) = 2
    /\ pending_swaps[1].seq = 1
    /\ pending_swaps[2].seq = 3
    /\ ready.called
    /\ ready.swaps = <<>>

====
